---- MODULE Spec2Model ----
(***************************************************************************)
(* A model of psych_git.py: the driver of the "AI YouTube Shorts Factory", *)
(* its content generator (create_quote_content), its sequential background *)
(* selector (generate_video_with_music) and its spreadsheet logging.       *)
(*                                                                         *)
(* Text is a sequence of tokens.  The three markers of the response format *)
(* are single tokens; every other token is a character or a word that      *)
(* contains no marker and no part of one.                                  *)
(***************************************************************************)
EXTENDS Integers, Sequences, FiniteSets, TLC

VARIABLES
    videos,            \* names of the .mp4 files of psych_temp (a name is a number; the order of the numbers is the order of the names)
    music,             \* number of .mp3 files of psych_music
    state_file,        \* psych_temp/last_video_index.txt: [exists, readable, content]
    sheet,             \* column 1 of the spreadsheet below its header row
    last_row,          \* the row of the latest sheet.append_row call
    clock,             \* int(time.time())
    selections,        \* what line 187 has printed: the indices and paths selected
    pc,                \* where each process is
    automated,         \* os.getenv('GITHUB_ACTIONS') of each process
    choice,            \* each process's menu choice
    attempt,           \* create_quote_content's loop variable
    history_list,      \* create_quote_content's history_list
    prompt,            \* the prompt of the request in flight: [theme, history]
    response,          \* the latest response: [has_text, text]
    quote,             \* (part1, part2, title) as the driver holds them
    available_videos,  \* the selector's sorted listing
    last_index,        \* the selector's last_index
    next_index,        \* the selector's next_index
    output_filename,   \* the timestamp of quote_<timestamp>.mp4
    upload_status,     \* the driver's upload_status
    calls,             \* calls each process has made: [reads, requests, writes, renders, uploads, appends]
    runs               \* runs (or selector calls) each process has started

vars == <<videos, music, state_file, sheet, last_row, clock, selections, pc,
          automated, choice, attempt, history_list, prompt, response, quote,
          available_videos, last_index, next_index, output_filename,
          upload_status, calls, runs>>

envVars == <<videos, music>>
genVars == <<attempt, history_list, prompt, response, quote>>
selVars == <<available_videos, last_index, next_index, selections, state_file>>
outVars == <<sheet, last_row, upload_status>>

(***************************************************************************)
(* Bounds of the model.                                                    *)
(***************************************************************************)
MaxVideos == 3
MaxFileLen == 2
MaxRespLen == 5
MaxCompLen == 2
MaxRuns == 2
MaxRows == 1
MaxCalls == 7

Procs == {1, 2}

(***************************************************************************)
(* Text.                                                                   *)
(***************************************************************************)
P1 == "PART_1:"
P2 == "PART_2:"
TI == "TITLE:"
Markers == {P1, P2, TI}
Whitespace == {" ", "\n"}

\* The sequences over S of length at most n.
SeqsUpTo(S, n) == UNION {[1..k -> S] : k \in 0..n}

\* str.split(sep) for a one-token separator: the pieces between its occurrences.
RECURSIVE SplitFrom(_, _, _, _)
SplitFrom(s, sep, i, cur) ==
    IF i > Len(s) THEN <<cur>>
    ELSE IF s[i] = sep THEN <<cur>> \o SplitFrom(s, sep, i + 1, <<>>)
    ELSE SplitFrom(s, sep, i + 1, Append(cur, s[i]))

Split(s, sep) == SplitFrom(s, sep, 1, <<>>)

\* str.replace(tok, ""): every occurrence removed.
Remove(s, tok) == SelectSeq(s, LAMBDA c : c # tok)

\* str.strip(): leading and trailing whitespace removed.
RECURSIVE LStrip(_)
LStrip(s) == IF s # <<>> /\ Head(s) \in Whitespace THEN LStrip(Tail(s)) ELSE s

RECURSIVE RStrip(_)
RStrip(s) ==
    IF s # <<>> /\ s[Len(s)] \in Whitespace THEN RStrip(SubSeq(s, 1, Len(s) - 1)) ELSE s

\* lstrip() in place of strip().
StripLeft(s) == LStrip(s)
Strip(s) == RStrip(LStrip(s))

\* "sep".join(parts)
RECURSIVE Join(_, _)
Join(parts, sep) ==
    IF parts = <<>> THEN <<>>
    ELSE IF Len(parts) = 1 THEN parts[1]
    ELSE parts[1] \o <<sep>> \o Join(Tail(parts), sep)

(***************************************************************************)
(* Lines 126-133: the parse of a response.  part1 never raises; part2      *)
(* raises IndexError when no PART_2: precedes the first TITLE:, and title  *)
(* raises IndexError when there is no TITLE:.                              *)
(***************************************************************************)
ParsePart1(text) == Strip(Remove(Split(text, P2)[1], P1))

Part2Raises(text) == Len(Split(Split(text, TI)[1], P2)) < 2
ParsePart2(text) == Strip(Split(Split(text, TI)[1], P2)[2])

TitleRaises(text) == Len(Split(text, TI)) < 2
ParseTitle(text) == Strip(Split(text, TI)[2])

\* Whether the try block of lines 126-131 raises: response.text itself raises
\* ValueError when the response carries no text.
ParseRaises(r) == ~r.has_text \/ Part2Raises(r.text) \/ TitleRaises(r.text)

ParsedQuote(r) == <<ParsePart1(r.text), ParsePart2(r.text), ParseTitle(r.text)>>

(***************************************************************************)
(* Decimal text and integers: str(n) of line 185 and int(text) of line 178.*)
(***************************************************************************)
Digits == <<"0", "1", "2", "3", "4", "5", "6", "7", "8", "9">>
DigitChars == {Digits[i] : i \in 1..10}
DigitVal(c) == (CHOOSE i \in 1..10 : Digits[i] = c) - 1

RECURSIVE NatStr(_)
NatStr(n) == IF n < 10 THEN <<Digits[n + 1]>> ELSE NatStr(n \div 10) \o <<Digits[(n % 10) + 1]>>

\* The number line 187 prints, which counts from 1, in place of the index.
StrOneBased(n) == NatStr(n + 1)

\* str(n)
Str(n) == IF n < 0 THEN <<"-">> \o NatStr(-n) ELSE NatStr(n)

RECURSIVE DigitsVal(_)
DigitsVal(s) == IF s = <<>> THEN 0 ELSE 10 * DigitsVal(SubSeq(s, 1, Len(s) - 1)) + DigitVal(s[Len(s)])

\* int(text) strips whitespace, takes one optional sign and then needs digits.
Unsigned(s) == IF s # <<>> /\ s[1] \in {"-", "+"} THEN Tail(s) ELSE s
IntRaises(text) ==
    LET d == Unsigned(Strip(text))
    IN  d = <<>> \/ \E i \in 1..Len(d) : d[i] \notin DigitChars
IntOf(text) ==
    LET t == Strip(text)
    IN  IF t[1] = "-" THEN -DigitsVal(Unsigned(t)) ELSE DigitsVal(Unsigned(t))

(***************************************************************************)
(* Python's list and integer operations used by the selector.              *)
(***************************************************************************)
\* sorted(names): ascending.
RECURSIVE SortedSeq(_)
SortedSeq(S) ==
    IF S = {} THEN <<>>
    ELSE LET m == CHOOSE x \in S : \A y \in S : x <= y
         IN  <<m>> \o SortedSeq(S \ {m})

\* a % n for n > 0: Python's result has the sign of n.
PyMod(a, n) == a % n

\* The remainder that truncates toward zero, as C's % does.
TruncRem(a, n) == IF a >= 0 THEN a % n ELSE -((-a) % n)

\* lst[i] raises IndexError outside -len..len-1; a negative i counts from the end.
IndexRaises(lst, i) == i < -Len(lst) \/ i >= Len(lst)
Item(lst, i) == IF i >= 0 THEN lst[i + 1] ELSE lst[Len(lst) + i + 1]

NextIndexTrunc(last, n) == TruncRem(last + 1, n)
\* Line 181.
NextIndex(last, n) == PyMod(last + 1, n)

(***************************************************************************)
(* generate_video_with_music, lines 162-190: the sequential selector.      *)
(***************************************************************************)
Called(p, what) == calls' = [calls EXCEPT ![p][what] = @ + 1]

\* Lines 163-172: the listings.  random.choice of an empty music list raises
\* IndexError, which line 189 turns into exit; no video is exit at line 172.
SelList(p) ==
    /\ pc[p] = "sel_list"
    /\ IF music = 0
         THEN /\ pc' = [pc EXCEPT ![p] = "exited"]
              /\ UNCHANGED available_videos
         ELSE /\ available_videos' = [available_videos EXCEPT ![p] = SortedSeq(videos)]
              /\ pc' = [pc EXCEPT ![p] = IF videos = {} THEN "exited" ELSE "sel_read"]
    /\ UNCHANGED <<envVars, genVars, outVars, last_index, next_index, selections,
                   state_file, clock, automated, choice, output_filename, calls, runs>>

\* Lines 174-179: the read of the state file.  open() of a file that exists and
\* cannot be opened raises OSError, which line 189 turns into exit.
SelRead(p) ==
    /\ pc[p] = "sel_read"
    /\ IF ~state_file.exists
         THEN /\ last_index' = [last_index EXCEPT ![p] = -1]
              /\ pc' = [pc EXCEPT ![p] = "sel_open"]
         ELSE IF ~state_file.readable
         THEN /\ pc' = [pc EXCEPT ![p] = "exited"]
              /\ UNCHANGED last_index
         ELSE /\ last_index' = [last_index EXCEPT ![p] =
                    IF IntRaises(state_file.content) THEN -1 ELSE IntOf(state_file.content)]
              /\ pc' = [pc EXCEPT ![p] = "sel_open"]
    /\ UNCHANGED <<envVars, genVars, outVars, available_videos, next_index, selections,
                   state_file, clock, automated, choice, output_filename, calls, runs>>

\* Lines 181-184: the index, the path, and open(state_file, 'w'), which creates
\* or truncates the file.
SelOpen(p) ==
    /\ pc[p] = "sel_open"
    /\ LET n == NextIndex(last_index[p], Len(available_videos[p]))
       IN  /\ next_index' = [next_index EXCEPT ![p] = n]
           /\ IF IndexRaises(available_videos[p], n)
                THEN /\ pc' = [pc EXCEPT ![p] = "exited"]
                     /\ UNCHANGED state_file
                ELSE /\ pc' = [pc EXCEPT ![p] = "sel_write"]
                     /\ state_file' = [exists |-> TRUE, readable |-> TRUE, content |-> <<>>]
    /\ UNCHANGED <<envVars, genVars, outVars, available_videos, last_index, selections,
                   clock, automated, choice, output_filename, calls, runs>>

\* Lines 185-187: the write, the close and the line printed.
SelWrite(p) ==
    /\ pc[p] = "sel_write"
    /\ state_file' = [state_file EXCEPT !.content = Str(next_index[p])]
    /\ selections' = Append(selections,
                            [proc |-> p, index |-> next_index[p],
                             video |-> Item(available_videos[p], next_index[p])])
    /\ Called(p, "writes")
    /\ pc' = [pc EXCEPT ![p] = "render"]
    /\ UNCHANGED <<envVars, genVars, outVars, available_videos, last_index, next_index,
                   clock, automated, choice, output_filename, runs>>

(***************************************************************************)
(* create_quote_content, lines 77-136.                                     *)
(***************************************************************************)
MAX_ATTEMPTS == 5
NumThemes == 12
Themes == 1..NumThemes

Placeholder == <<"None.">>
Sentinel == << <<"Error">>, <<"Could not generate unique quote.">>, <<"Error">> >>
NoQuote == << <<>>, <<>>, <<>> >>
NoResponse == [has_text |-> FALSE, text |-> <<>>]
NoPrompt == [theme |-> 0, history |-> <<>>]

\* Line 83: one "- <quote>" line for each used quote.
HistoryText(quotes) == Join([i \in 1..Len(quotes) |-> <<"- ">> \o quotes[i]], "\n")

\* What the generation service may answer: text in the format, text that misses
\* a marker, a hook that reads "Error", and a response that carries no text.
GoodResponse == <<P1, " ", "a", "\n", P2, " ", "b", "\n", TI, " ", "a">>
ServiceResponses ==
    { [has_text |-> TRUE, text |-> GoodResponse],
      [has_text |-> TRUE, text |-> <<P1, " ", "a", "\n", P2, " ", "b">>],
      [has_text |-> TRUE, text |-> <<"a", "\n", P2, " ", "b", "\n", TI, " ", "a">>],
      [has_text |-> TRUE, text |-> <<P1, " ", "Error", "\n", P2, " ", "b", "\n", TI, " ", "a">>],
      NoResponse }

\* Lines 81-86: the history, read once, before the loop.
ReadHistory(p) ==
    /\ pc[p] = "gen_history"
    /\ \E ok \in BOOLEAN :
          history_list' = [history_list EXCEPT ![p] =
                              IF ok THEN HistoryText(sheet) ELSE Placeholder]
    /\ Called(p, "reads")
    /\ attempt' = [attempt EXCEPT ![p] = 0]
    /\ pc' = [pc EXCEPT ![p] = "gen_request"]
    /\ UNCHANGED <<envVars, selVars, outVars, prompt, response, quote, clock,
                   automated, choice, output_filename, runs>>

\* The same step with the history read again at each attempt.
RequestFresh(p) ==
    /\ pc[p] = "gen_request"
    /\ attempt[p] < MAX_ATTEMPTS
    /\ \E theme \in Themes, ok \in BOOLEAN, raised \in BOOLEAN, r \in ServiceResponses :
          LET h == IF ok THEN HistoryText(sheet) ELSE Placeholder
          IN  /\ history_list' = [history_list EXCEPT ![p] = h]
              /\ prompt' = [prompt EXCEPT ![p] = [theme |-> theme, history |-> h]]
              /\ IF raised
                   THEN /\ pc' = [pc EXCEPT ![p] = "crashed"]
                        /\ UNCHANGED response
                   ELSE /\ pc' = [pc EXCEPT ![p] = "gen_parse"]
                        /\ response' = [response EXCEPT ![p] = r]
    /\ calls' = [calls EXCEPT ![p]["reads"] = @ + 1, ![p]["requests"] = @ + 1]
    /\ UNCHANGED <<envVars, selVars, outVars, attempt, quote, clock,
                   automated, choice, output_filename, runs>>

\* Lines 89-124: one attempt's theme, prompt and request.  generate_content is
\* called outside the try block, so what it raises leaves the function.
Request(p) ==
    /\ pc[p] = "gen_request"
    /\ attempt[p] < MAX_ATTEMPTS
    /\ \E theme \in Themes, raised \in BOOLEAN, r \in ServiceResponses :
          /\ prompt' = [prompt EXCEPT ![p] = [theme |-> theme, history |-> history_list[p]]]
          /\ IF raised
               THEN /\ pc' = [pc EXCEPT ![p] = "crashed"]
                    /\ UNCHANGED response
               ELSE /\ pc' = [pc EXCEPT ![p] = "gen_parse"]
                    /\ response' = [response EXCEPT ![p] = r]
    /\ Called(p, "requests")
    /\ UNCHANGED <<envVars, selVars, outVars, attempt, history_list, quote, clock,
                   automated, choice, output_filename, runs>>

\* Lines 126-136: the parse; a failure is the next attempt, and the failure of
\* the last attempt returns the sentinel.
ParseResponse(p) ==
    /\ pc[p] = "gen_parse"
    /\ IF ParseRaises(response[p])
         THEN /\ attempt' = [attempt EXCEPT ![p] = @ + 1]
              /\ IF attempt[p] + 1 < MAX_ATTEMPTS
                   THEN /\ pc' = [pc EXCEPT ![p] = "gen_request"]
                        /\ UNCHANGED quote
                   ELSE /\ pc' = [pc EXCEPT ![p] = "check_content"]
                        /\ quote' = [quote EXCEPT ![p] = Sentinel]
         ELSE /\ quote' = [quote EXCEPT ![p] = ParsedQuote(response[p])]
              /\ pc' = [pc EXCEPT ![p] = "check_content"]
              /\ UNCHANGED attempt
    /\ prompt' = [prompt EXCEPT ![p] = NoPrompt]
    /\ UNCHANGED <<envVars, selVars, outVars, history_list, response, clock,
                   automated, choice, output_filename, calls, runs>>

(***************************************************************************)
(* The driver, lines 244-295, and log_to_sheet, lines 233-241.             *)
(***************************************************************************)
Inputs == {"1", "2", "3", ""}
ErrorMessages == {<<"quota exceeded">>, <<"invalid_grant">>}

GeneratedLocally == <<"Generated Locally">>
Uploaded == <<"Uploaded to YouTube">>
UploadFailed(e) == <<"YouTube Upload Failed: ">> \o e

\* Lines 63-73.
verify_media_files == ~(music = 0 \/ videos = {})

\* The same step with the result of verify_media_files ignored.
MainUnchecked(p) ==
    /\ pc[p] = "main"
    /\ pc' = [pc EXCEPT ![p] = "choose"]
    /\ UNCHANGED <<envVars, genVars, selVars, outVars, clock, automated, choice,
                   output_filename, calls, runs>>

\* Lines 245-248: exit when verify_media_files returns False.
Main(p) ==
    /\ pc[p] = "main"
    /\ pc' = [pc EXCEPT ![p] = IF verify_media_files THEN "choose" ELSE "exited"]
    /\ UNCHANGED <<envVars, genVars, selVars, outVars, clock, automated, choice,
                   output_filename, calls, runs>>

\* Lines 52-61, 249-251 and 294-295: the choice; one that is neither '1' nor
\* '2' prints a message, and the script ends.
GetUserChoice(p) ==
    /\ pc[p] = "choose"
    /\ \E typed \in Inputs :
          LET c == IF automated[p] THEN "2" ELSE typed
          IN  /\ choice' = [choice EXCEPT ![p] = c]
              /\ pc' = [pc EXCEPT ![p] = IF c \in {"1", "2"} THEN "gen_history" ELSE "finished"]
    /\ UNCHANGED <<envVars, genVars, selVars, outVars, clock, automated,
                   output_filename, calls, runs>>

\* Lines 253-261: exit when part1 is "Error"; else the file name and the call
\* of generate_video_with_music.
CheckContent(p) ==
    /\ pc[p] = "check_content"
    /\ IF quote[p][1] = <<"Error">>
         THEN /\ pc' = [pc EXCEPT ![p] = "exited"]
              /\ UNCHANGED output_filename
         ELSE /\ pc' = [pc EXCEPT ![p] = "sel_list"]
              /\ output_filename' = [output_filename EXCEPT ![p] = clock]
    /\ UNCHANGED <<envVars, genVars, selVars, outVars, clock, automated, choice,
                   calls, runs>>

\* Lines 192-231: the composition; what the media toolkit raises is not caught.
Render(p) ==
    /\ pc[p] = "render"
    /\ \E ok \in BOOLEAN : pc' = [pc EXCEPT ![p] = IF ok THEN "upload" ELSE "crashed"]
    /\ Called(p, "renders")
    /\ UNCHANGED <<envVars, genVars, selVars, outVars, clock, automated, choice,
                   output_filename, runs>>

\* Lines 263-289: the upload stage.  Authentication, the tags and the upload
\* are in one try block; upload_video is reached when the first two return.
Upload(p) ==
    /\ pc[p] = "upload"
    /\ IF choice[p] = "2"
         THEN \E outcome \in {"ok", "auth", "tags", "upload"}, e \in ErrorMessages :
                 /\ upload_status' = [upload_status EXCEPT ![p] =
                        IF outcome = "ok" THEN Uploaded ELSE UploadFailed(e)]
                 /\ calls' = [calls EXCEPT ![p]["uploads"] =
                        IF outcome \in {"ok", "upload"} THEN @ + 1 ELSE @]
         ELSE /\ upload_status' = [upload_status EXCEPT ![p] = GeneratedLocally]
              /\ UNCHANGED calls
    /\ pc' = [pc EXCEPT ![p] = "log"]
    /\ UNCHANGED <<envVars, genVars, selVars, sheet, last_row, clock, automated,
                   choice, output_filename, runs>>

\* Lines 291-293 and 233-241: one append_row; what it raises is caught.
LogToSheet(p) ==
    /\ pc[p] = "log"
    /\ last_row' = <<quote[p][1], quote[p][2], quote[p][3], output_filename[p],
                     upload_status[p]>>
    /\ \E ok \in BOOLEAN : sheet' = IF ok THEN Append(sheet, quote[p][1]) ELSE sheet
    /\ Called(p, "appends")
    /\ pc' = [pc EXCEPT ![p] = "finished"]
    /\ UNCHANGED <<envVars, genVars, selVars, upload_status, clock, automated,
                   choice, output_filename, runs>>

(***************************************************************************)
(* The states a run may start from, and later calls of the selector.       *)
(***************************************************************************)
VideoNames == 1..MaxVideos
FileChars == {"1", "9", "-", " ", "x"}
NoCalls == [reads |-> 0, requests |-> 0, writes |-> 0, renders |-> 0, uploads |-> 0,
            appends |-> 0]
Ended == {"finished", "exited", "crashed"}

AbsentFile == [exists |-> FALSE, readable |-> FALSE, content |-> <<>>]
UnreadableFile == [exists |-> TRUE, readable |-> FALSE, content |-> <<"1">>]
ReadableFiles == {[exists |-> TRUE, readable |-> TRUE, content |-> c] :
                     c \in SeqsUpTo(FileChars, MaxFileLen)}
StateFiles == {AbsentFile, UnreadableFile} \cup ReadableFiles
SomeStateFiles ==
    {AbsentFile, UnreadableFile,
     [exists |-> TRUE, readable |-> TRUE, content |-> <<"1">>],
     [exists |-> TRUE, readable |-> TRUE, content |-> <<"x">>]}

\* The locals of every process as a run finds them.
FreshLocals ==
    /\ choice = [p \in Procs |-> "unset"]
    /\ attempt = [p \in Procs |-> 0]
    /\ history_list = [p \in Procs |-> <<>>]
    /\ prompt = [p \in Procs |-> NoPrompt]
    /\ quote = [p \in Procs |-> NoQuote]
    /\ available_videos = [p \in Procs |-> <<>>]
    /\ last_index = [p \in Procs |-> -1]
    /\ next_index = [p \in Procs |-> 0]
    /\ output_filename = [p \in Procs |-> 0]
    /\ upload_status = [p \in Procs |-> <<>>]
    /\ calls = [p \in Procs |-> NoCalls]
    /\ runs = [p \in Procs |-> 1]

FreshWorld ==
    /\ last_row = <<>>
    /\ clock = 1
    /\ selections = <<>>

\* Line 261 of a later run: generate_video_with_music is called again, over a
\* folder that may hold other videos.
NextCall(p) ==
    /\ pc[p] \in {"render", "exited"}
    /\ runs[p] < MaxRuns
    /\ runs' = [runs EXCEPT ![p] = @ + 1]
    /\ videos' \in SUBSET VideoNames \ {{}}
    /\ pc' = [pc EXCEPT ![p] = "sel_list"]
    /\ available_videos' = [available_videos EXCEPT ![p] = <<>>]
    /\ last_index' = [last_index EXCEPT ![p] = -1]
    /\ next_index' = [next_index EXCEPT ![p] = 0]
    /\ UNCHANGED <<music, genVars, outVars, selections, state_file, clock, automated,
                   choice, output_filename, calls>>

\* Line 261 of a later run, over the same folder.
NextCallSame(p) ==
    /\ pc[p] \in {"render", "exited"}
    /\ runs[p] < MaxCalls
    /\ runs' = [runs EXCEPT ![p] = @ + 1]
    /\ pc' = [pc EXCEPT ![p] = "sel_list"]
    /\ available_videos' = [available_videos EXCEPT ![p] = <<>>]
    /\ last_index' = [last_index EXCEPT ![p] = -1]
    /\ next_index' = [next_index EXCEPT ![p] = 0]
    /\ UNCHANGED <<envVars, genVars, outVars, selections, state_file, clock, automated,
                   choice, output_filename, calls>>

(***************************************************************************)
(* Spec: one run of the whole script by one process, from any folders,     *)
(* state file and spreadsheet within the bounds.                           *)
(***************************************************************************)
Init ==
    /\ videos \in SUBSET VideoNames
    /\ music \in 0..1
    /\ state_file \in SomeStateFiles
    /\ automated \in [Procs -> BOOLEAN]
    /\ automated[2] = FALSE
    /\ sheet \in SeqsUpTo({<<"a">>}, MaxRows)
    /\ response = [p \in Procs |-> NoResponse]
    /\ pc = [p \in Procs |-> IF p = 1 THEN "main" ELSE "idle"]
    /\ FreshWorld
    /\ FreshLocals

Next ==
    \E p \in Procs :
        \/ Main(p)
        \/ GetUserChoice(p)
        \/ ReadHistory(p)
        \/ Request(p)
        \/ ParseResponse(p)
        \/ CheckContent(p)
        \/ SelList(p)
        \/ SelRead(p)
        \/ SelOpen(p)
        \/ SelWrite(p)
        \/ Render(p)
        \/ Upload(p)
        \/ LogToSheet(p)

Spec == Init /\ [][Next]_vars

(***************************************************************************)
(* SpecSelector: calls of the selector by one process, over a folder that  *)
(* changes between the calls, from any state file.                         *)
(***************************************************************************)
SelectorWorld ==
    /\ videos \in SUBSET VideoNames \ {{}}
    /\ music = 1
    /\ automated = [p \in Procs |-> FALSE]
    /\ sheet = <<>>
    /\ FreshWorld
    /\ FreshLocals

InitSelector ==
    /\ SelectorWorld
    /\ response = [p \in Procs |-> NoResponse]
    /\ state_file \in StateFiles
    /\ pc = [p \in Procs |-> IF p = 1 THEN "sel_list" ELSE "idle"]

NextSelector ==
    \E p \in Procs :
        \/ SelList(p)
        \/ SelRead(p)
        \/ SelOpen(p)
        \/ SelWrite(p)
        \/ NextCall(p)

SpecSelector == InitSelector /\ [][NextSelector]_vars

(***************************************************************************)
(* SpecSequence: calls of the selector by one process over one folder,     *)
(* with no state file at first.                                            *)
(***************************************************************************)
InitSequence ==
    /\ SelectorWorld
    /\ response = [p \in Procs |-> NoResponse]
    /\ state_file = AbsentFile
    /\ pc = [p \in Procs |-> IF p = 1 THEN "sel_list" ELSE "idle"]

NextSequence ==
    \E p \in Procs :
        \/ SelList(p)
        \/ SelRead(p)
        \/ SelOpen(p)
        \/ SelWrite(p)
        \/ NextCallSame(p)

SpecSequence == InitSequence /\ [][NextSequence]_vars

(***************************************************************************)
(* SpecRace: two processes in the selector at once, over one folder and    *)
(* one state file.                                                         *)
(***************************************************************************)
InitRace ==
    /\ SelectorWorld
    /\ response = [p \in Procs |-> NoResponse]
    /\ state_file \in {AbsentFile} \cup ReadableFiles
    /\ pc = [p \in Procs |-> "sel_list"]

NextRace ==
    \E p \in Procs :
        \/ SelList(p)
        \/ SelRead(p)
        \/ SelOpen(p)
        \/ SelWrite(p)

SpecRace == InitRace /\ [][NextRace]_vars

(***************************************************************************)
(* SpecParse: the parse of one response, of any text within the bounds.    *)
(***************************************************************************)
Tokens == Markers \cup Whitespace \cup {"a"}
Components == SeqsUpTo(Whitespace \cup {"a"}, MaxCompLen)

\* 'PART_1: A, newline, PART_2: B, newline, TITLE: C'
WellFormed(A, B, C) ==
    <<P1, " ">> \o A \o <<"\n", P2, " ">> \o B \o <<"\n", TI, " ">> \o C

ParseInputs ==
    SeqsUpTo(Tokens, MaxRespLen)
        \cup {WellFormed(A, B, C) : A \in Components, B \in Components, C \in Components}

InitParse ==
    /\ videos = VideoNames
    /\ music = 1
    /\ automated = [p \in Procs |-> FALSE]
    /\ sheet = <<>>
    /\ FreshWorld
    /\ FreshLocals
    /\ state_file = AbsentFile
    /\ pc = [p \in Procs |-> IF p = 1 THEN "gen_parse" ELSE "idle"]
    /\ \E t \in ParseInputs :
          response = [p \in Procs |-> IF p = 1 THEN [has_text |-> TRUE, text |-> t]
                                               ELSE NoResponse]

NextParse == \E p \in Procs : ParseResponse(p)

SpecParse == InitParse /\ [][NextParse]_vars

(***************************************************************************)
(* The sequential selector.                                                *)
(***************************************************************************)
Last(s) == s[Len(s)]
TheFile(text) == [exists |-> TRUE, readable |-> TRUE, content |-> text]

\* C1: with no state file at first, one folder of N >= 1 videos and no other
\* writer, the k-th call of the selector selects index (k-1) mod N, the video
\* at that place of the sorted listing; every N calls in a row select every
\* video once; no call aborts; and after each call the state file holds the
\* index just selected.
C1_RoundRobin ==
    LET N == Cardinality(videos)
        sorted == SortedSeq(videos)
    IN  /\ pc[1] # "exited"
        /\ \A k \in 1..Len(selections) :
              /\ selections[k].index = (k - 1) % N
              /\ selections[k].video = sorted[((k - 1) % N) + 1]
        /\ \A k \in 1..(Len(selections) - N + 1) :
              {selections[j].video : j \in k..(k + N - 1)} = videos
        /\ pc[1] = "render" =>
              /\ Len(selections) = runs[1]
              /\ state_file = TheFile(Str(Last(selections).index))

\* The selector has gone twice round a folder of several videos.
C1_Witness ==
    /\ pc[1] = "render"
    /\ Cardinality(videos) >= 2
    /\ Len(selections) > 2 * Cardinality(videos)

\* C10: whatever integer the state file holds and however the folder has
\* changed since the last call, a call selects (L+1) mod N for the N of its own
\* listing, an index within 0..N-1, and writes the index it selected.
C10_IndexSafety ==
    LET N == Cardinality(videos)
    IN  /\ pc[1] = "sel_open" =>
              last_index[1] = IF ~state_file.exists \/ IntRaises(state_file.content)
                                THEN -1 ELSE IntOf(state_file.content)
        /\ pc[1] \in {"sel_write", "render"} =>
              /\ next_index[1] \in 0..(N - 1)
              /\ (last_index[1] + 1 - next_index[1]) % N = 0
        /\ pc[1] = "render" =>
              /\ state_file = TheFile(Str(next_index[1]))
              /\ IntOf(state_file.content) = next_index[1]
              /\ Last(selections).index = next_index[1]
              /\ Last(selections).video = SortedSeq(videos)[next_index[1] + 1]

\* A second call, over a folder smaller than the index the first call left.
C10_Witness ==
    /\ pc[1] = "render"
    /\ runs[1] = 2
    /\ last_index[1] >= Cardinality(videos)

\* Whether the state file is missing, cannot be read, or holds no integer.
Unusable(f) == ~f.exists \/ ~f.readable \/ IntRaises(f.content)

\* C5: when the state file is missing, unreadable or holds no valid integer,
\* the selector takes the last index to be -1 and goes on to select index 0:
\* the read never ends the run.
C5_AsClaimed ==
    [][(pc[1] = "sel_read" /\ pc'[1] # "sel_read" /\ Unusable(state_file))
          => (pc'[1] = "sel_open" /\ last_index'[1] = -1
                /\ NextIndex(last_index'[1], Len(available_videos'[1])) = 0)]_vars

\* C9: two runs that read the same last index L select the same index, and
\* the state file then holds (L+1) mod N: it has advanced by one position for
\* two selections.
C9_LostUpdate ==
    (pc[1] = "render" /\ pc[2] = "render" /\ last_index[1] = last_index[2]) =>
        /\ next_index[1] = next_index[2]
        /\ next_index[1] = (last_index[1] + 1) % Cardinality(videos)
        /\ state_file = TheFile(Str((last_index[1] + 1) % Cardinality(videos)))
        /\ Len(selections) = 2
        /\ selections[1].video = selections[2].video

\* Both runs have read the same index of a state file that held one, over a
\* folder of several videos, and both have selected and written.
C9_Witness ==
    /\ pc[1] = "render"
    /\ pc[2] = "render"
    /\ Cardinality(videos) >= 2
    /\ last_index[1] = last_index[2]
    /\ last_index[1] >= 0
    /\ next_index[1] = next_index[2]
    /\ state_file.content = Str(next_index[1])

(***************************************************************************)
(* The parse of a response.                                                *)
(***************************************************************************)
Count(text, tok) == Cardinality({i \in 1..Len(text) : text[i] = tok})
First(text, tok) == CHOOSE i \in 1..Len(text) : text[i] = tok /\ \A j \in 1..(i - 1) : text[j] # tok
HasMarker(text) == \E i \in 1..Len(text) : text[i] \in Markers

\* Every marker occurs, and the first PART_1: is before the first PART_2:,
\* which is before the first TITLE:.
MarkersInOrder(text) ==
    /\ \A m \in Markers : Count(text, m) > 0
    /\ First(text, P1) < First(text, P2)
    /\ First(text, P2) < First(text, TI)

\* C6: a response that misses one of the three markers, or whose markers are
\* not in the order PART_1:, PART_2:, TITLE:, is a parse failure: the attempt
\* returns no triple and the next attempt follows.
C6_AsClaimed ==
    (pc[1] # "gen_parse" /\ ~MarkersInOrder(response[1].text)) =>
        (pc[1] = "gen_request" /\ quote[1] = NoQuote)

\* The text has the shape 'PART_1: A, newline, PART_2: B, newline, TITLE: C'
\* with each marker once, so that A, B and C hold no marker.
IsWellFormed(text) ==
    /\ \A m \in Markers : Count(text, m) = 1
    /\ Len(text) >= 8
    /\ text[1] = P1 /\ text[2] = " "
    /\ LET i == First(text, P2)
           j == First(text, TI)
       IN  /\ 3 < i /\ i + 2 < j /\ j < Len(text)
           /\ text[i - 1] = "\n" /\ text[i + 1] = " "
           /\ text[j - 1] = "\n" /\ text[j + 1] = " "

ComponentA(text) == SubSeq(text, 3, First(text, P2) - 2)
ComponentB(text) == SubSeq(text, First(text, P2) + 2, First(text, TI) - 2)
ComponentC(text) == SubSeq(text, First(text, TI) + 2, Len(text))

\* r is x without its leading and trailing whitespace.
IsTrimOf(r, x) ==
    /\ r = <<>> \/ (r[1] \notin Whitespace /\ r[Len(r)] \notin Whitespace)
    /\ \E i \in 0..Len(x) :
          /\ i + Len(r) <= Len(x)
          /\ SubSeq(x, i + 1, i + Len(r)) = r
          /\ \A k \in (1..i) \cup ((i + Len(r) + 1)..Len(x)) : x[k] \in Whitespace

\* C7: the parse of a well-formed response 'PART_1: A, newline, PART_2: B,
\* newline, TITLE: C' succeeds and returns A, B and C, each without its leading
\* and trailing whitespace and none with a marker in it.
C7_WellFormedParsed ==
    (pc[1] # "gen_parse" /\ IsWellFormed(response[1].text)) =>
        /\ pc[1] = "check_content"
        /\ IsTrimOf(quote[1][1], ComponentA(response[1].text))
        /\ IsTrimOf(quote[1][2], ComponentB(response[1].text))
        /\ IsTrimOf(quote[1][3], ComponentC(response[1].text))
        /\ \A k \in 1..3 : ~HasMarker(quote[1][k])

\* A well-formed response whose three components all lost whitespace at both
\* ends has been parsed.
C7_Witness ==
    /\ pc[1] = "check_content"
    /\ IsWellFormed(response[1].text)
    /\ quote[1][1] = <<"a">> /\ Len(ComponentA(response[1].text)) > 1
    /\ quote[1][2] = <<"a">> /\ Len(ComponentB(response[1].text)) > 1
    /\ quote[1][3] = <<"a">> /\ Len(ComponentC(response[1].text)) > 1

(***************************************************************************)
(* The content generator and the driver.                                   *)
(***************************************************************************)
InGenerator(p) == pc[p] \in {"gen_request", "gen_parse"}

\* C2: create_quote_content always ends with a parsed triple or with the
\* sentinel: it makes at most 5 requests, returns the triple parsed from the
\* first response that parses without a further request, and returns the
\* sentinel exactly when 5 attempts have failed.
C2_AsClaimed ==
    /\ calls[1].requests <= MAX_ATTEMPTS
    /\ ~(pc[1] = "crashed" /\ calls[1].writes = 0)
    /\ pc[1] = "check_content" =>
          /\ quote[1] = Sentinel <=> attempt[1] = MAX_ATTEMPTS
          /\ quote[1] # Sentinel =>
                /\ quote[1] = ParsedQuote(response[1])
                /\ calls[1].requests = attempt[1] + 1

\* The driver's three cases of no further stage.
NoMedia == music = 0 \/ videos = {}
InvalidChoice(p) == choice[p] \notin {"1", "2", "unset"}
Exhausted(p) == quote[p] = Sentinel /\ pc[p] # "check_content"
NoStageAfterGeneration(p) ==
    /\ calls[p].writes = 0 /\ calls[p].renders = 0
    /\ calls[p].uploads = 0 /\ calls[p].appends = 0
    /\ selections = <<>> /\ last_row = <<>>

\* C3 as claimed: in each of the three cases the driver halts by exit, and no
\* later stage runs.
C3_AsClaimed ==
    /\ (NoMedia /\ pc[1] # "main") => (pc[1] = "exited" /\ calls[1] = NoCalls)
    /\ Exhausted(1) => (pc[1] = "exited" /\ NoStageAfterGeneration(1))
    /\ InvalidChoice(1) => (pc[1] = "exited" /\ calls[1] = NoCalls)

\* C3 as amended: with no music or no video, and with the sentinel returned,
\* the driver halts by exit and no later stage runs; with a choice that is
\* neither '1' nor '2' no stage runs either, and the script ends without exit.
C3_HaltsOrEnds ==
    /\ (NoMedia /\ pc[1] # "main") => (pc[1] = "exited" /\ calls[1] = NoCalls)
    /\ Exhausted(1) => (pc[1] = "exited" /\ NoStageAfterGeneration(1))
    /\ InvalidChoice(1) =>
          (pc[1] = "finished" /\ calls[1] = NoCalls /\ NoStageAfterGeneration(1))

\* Five attempts have failed and the driver has left by exit.
C3_Witness ==
    /\ pc[1] = "exited"
    /\ quote[1] = Sentinel
    /\ calls[1].requests = MAX_ATTEMPTS

\* The status the claim gives a run.
StatusClaimed(p) ==
    IF choice[p] = "1" THEN upload_status[p] = GeneratedLocally
    ELSE \/ upload_status[p] = Uploaded /\ calls[p].uploads = 1
         \/ \E e \in ErrorMessages : upload_status[p] = UploadFailed(e)

\* C4: a run with choice '1' or '2' whose content the driver accepted ends
\* with exactly one append of the row [hook, reveal, title, file name, status]
\* made after the upload stage, with the status of the run's outcome.
C4_AsClaimed ==
    /\ calls[1].appends <= 1
    /\ calls[1].appends = 1 => pc[1] = "finished"
    /\ (pc[1] \in Ended /\ choice[1] \in {"1", "2"} /\ quote[1] # NoQuote
          /\ quote[1][1] # <<"Error">>) =>
          /\ calls[1].appends = 1
          /\ last_row = <<quote[1][1], quote[1][2], quote[1][3], output_filename[1],
                          upload_status[1]>>
          /\ StatusClaimed(1)

\* C8 as claimed: the history is read at the start of each attempt, so that
\* after k requests there have been k reads.
C8_AsClaimed ==
    pc[1] = "gen_parse" => calls[1].reads = calls[1].requests

\* C8 as amended: the history is read once in a call, before the first
\* attempt; every attempt's prompt embeds the result of that one read, which
\* is the placeholder when the read failed, and the attempts follow.
C8_ReadOnce ==
    /\ (InGenerator(1) \/ calls[1].requests > 0) => calls[1].reads = 1
    /\ InGenerator(1) => history_list[1] \in {HistoryText(sheet), Placeholder}
    /\ pc[1] = "gen_parse" => prompt[1].history = history_list[1]

\* A second attempt's request, in a call whose read of the history failed.
C8_Witness ==
    /\ pc[1] = "gen_parse"
    /\ calls[1].requests >= 2
    /\ history_list[1] = Placeholder
    /\ prompt[1].history = Placeholder

====
